---- MODULE Spec2Model ----
(***************************************************************************)
(* Model of src/src/main.ts (cancel-previous-runs): run(), getRequiredEnv, *)
(* cancelDuplicates and cancelRun, with the three GitHub endpoints the     *)
(* action talks to (getWorkflowRun, listWorkflowRuns, cancelWorkflowRun)   *)
(* as the environment.                                                     *)
(*                                                                         *)
(* Strings the code takes apart are sequences: a run identifier is the     *)
(* sequence of its decimal digits, a ref, a repository slug or a URL is    *)
(* the sequence of its '/'-separated segments.                             *)
(***************************************************************************)
EXTENDS Integers, Sequences, FiniteSets, TLC

(* ------------------------------ bounds --------------------------------- *)

\* run numbers of the workflow are 1..MaxRunNumber
MaxRunNumber == 2
\* run identifiers are 9..MaxRunId: of one and of two decimal digits
MaxRunId == 12
\* pages the paginated listing of one status delivers at most
MaxPages == 2
\* records on one page at most
MaxPageLen == 1

RunNumbers == 1..MaxRunNumber
RunIds == 9..MaxRunId
Statuses == {"queued", "in_progress", "completed"}
Events == {"push", "pull_request", "schedule"}

(* ------------------------- strings and numbers ------------------------- *)

RECURSIVE toString(_)
\* Number.prototype.toString: the decimal digits of n, n >= 0
toString(n) ==
  IF n < 10 THEN <<n>> ELSE Append(toString(n \div 10), n % 10)

RECURSIVE parseIntFrom(_, _)
parseIntFrom(acc, s) ==
  IF s = <<>> THEN acc ELSE parseIntFrom(acc * 10 + Head(s), Tail(s))

\* Number.parseInt of a string of decimal digits
parseInt(s) == parseIntFrom(0, s)

RECURSIVE strLess(_, _)
\* a < b on JavaScript strings: by code units, a proper prefix is smaller
strLess(a, b) ==
  IF b = <<>> THEN FALSE
  ELSE IF a = <<>> THEN TRUE
  ELSE IF Head(a) # Head(b) THEN Head(a) < Head(b)
  ELSE strLess(Tail(a), Tail(b))

\* a >= b on JavaScript strings
strGreaterEq(a, b) == ~strLess(a, b)

\* startsWith that looks at the first segment only, as for the prefix 'refs/'
startsWithFirstSegment(s, prefix) ==
  /\ Len(s) > Len(prefix)
  /\ s[1] = prefix[1]

\* String.prototype.startsWith for a prefix that ends in '/': the segments
\* of the prefix, and at least one more segment after them
startsWith(s, prefix) ==
  /\ Len(s) > Len(prefix)
  /\ SubSeq(s, 1, Len(prefix)) = prefix

\* String.prototype.replace(pattern, '') for a pattern that ends in '/':
\* the first occurrence is removed
replaceFirst(s, pattern) ==
  LET hits == {i \in 1..(Len(s) - Len(pattern)) :
                 SubSeq(s, i, i + Len(pattern) - 1) = pattern}
  IN  IF hits = {} THEN s
      ELSE LET i == CHOOSE h \in hits : \A g \in hits : h <= g
           IN  SubSeq(s, 1, i - 1) \o SubSeq(s, i + Len(pattern), Len(s))

\* Array.prototype.pop() || '' on the result of split('/')
lastSegment(segments) ==
  IF segments = <<>> THEN "" ELSE segments[Len(segments)]

\* the tag prefix misspelt 'refs/tag/'
tagPrefixMisspelt == <<"refs", "tag">>

\* 'refs/heads/' and 'refs/tags/'
branchPrefix == <<"refs", "heads">>
tagPrefix == <<"refs", "tags">>

(* ------------------------------- state --------------------------------- *)

VARIABLES
  runs,        \* the workflow's runs on the service: run_number -> [id, event]
  service,     \* the status the service holds for each run
  env,         \* process.env of each invocation: the defined keys -> value
  pc,          \* where each invocation is: "start", "lookup", "list",
               \* "cancel", "rejected" or "exited"
  envRead,     \* the keys getRequiredEnv was called with
  branch,      \* run(): the local branch
  workflowId,  \* cancelDuplicates: the local workflowId
  statusIdx,   \* cancelDuplicates: position of the outer loop in StatusList
  pageNo,      \* pages of the current status listing received so far
  sorted,      \* cancelDuplicates: the TreeMap run_number -> element
  pending,     \* keys the iterator of sorted.backward() has yet to deliver
  calls,       \* the requests each invocation has sent, oldest first
  promise,     \* the promise cancelDuplicates returned: "none" before the
               \* call, then "pending", "resolved" or "rejected"
  setFailed,   \* the messages core.setFailed was called with
  exitCode,    \* exit code of the process, -1 while it runs
  delivered    \* the pages the iterator has delivered to each invocation,
               \* oldest first, each with the status of the listing it
               \* belongs to (kept where a specification observes them)

\* what the invocations hold, and what the service holds
local == <<env, pc, envRead, branch, workflowId, statusIdx, pageNo, sorted,
           pending, calls, promise, setFailed, exitCode>>
vars == <<runs, service, local, delivered>>

Procs == DOMAIN pc

\* the two statuses in the other order
StatusListReversed == <<"in_progress", "queued">>

\* the statuses the outer loop of cancelDuplicates lists, in its order
StatusList == <<"queued", "in_progress">>

selfRunId(p) == env[p]["GITHUB_RUN_ID"]
eventName(p) == env[p]["GITHUB_EVENT_NAME"]

(* ----------------------------- environment ----------------------------- *)

RunIdStrings == {toString(i) : i \in RunIds}
Repositories == {<<"o", "r">>}
Refs == {<<"refs", "heads", "main">>, <<"refs", "tags", "v1">>,
         <<"refs", "pull", "1", "merge">>}
HeadRefs == {<<"feature">>, <<"refs", "tags", "v1">>}

\* process.env with the given values; each argument is the set of values
\* of its key: empty when the key is not set, a singleton when it is
envOf(id, repo, ev, ref, head) ==
  LET ks == {"GITHUB_RUN_ID", "GITHUB_REPOSITORY", "GITHUB_EVENT_NAME",
             "GITHUB_REF", "GITHUB_HEAD_REF"}
      v  == [k \in ks |->
               CASE k = "GITHUB_RUN_ID" -> id
                 [] k = "GITHUB_REPOSITORY" -> repo
                 [] k = "GITHUB_EVENT_NAME" -> ev
                 [] k = "GITHUB_REF" -> ref
                 [] k = "GITHUB_HEAD_REF" -> head]
  IN  [k \in {j \in ks : v[j] # {}} |-> CHOOSE x \in v[k] : TRUE]

\* none or one of the values of S
optional(S) == {{}} \cup {{x} : x \in S}

\* The environments an invocation may start in. GITHUB_HEAD_REF is set on
\* pull_request events only, where GITHUB_REF is the merge ref.
Envs ==
  {envOf(id, repo, {ev}, ref, {}) :
     id \in optional(RunIdStrings), repo \in optional(Repositories),
     ev \in {"push", "schedule"}, ref \in optional(Refs)}
  \cup
  {envOf(id, repo, {"pull_request"}, {<<"refs", "pull", "1", "merge">>}, head) :
     id \in optional(RunIdStrings), repo \in optional(Repositories),
     head \in optional(HeadRefs)}
  \cup
  {envOf(id, repo, {}, {<<"refs", "heads", "main">>}, {}) :
     id \in optional(RunIdStrings), repo \in optional(Repositories)}

\* the runs of the workflow: identifiers are unique, events are arbitrary
RunTables ==
  {t \in [RunNumbers -> [id : RunIds, event : Events]] :
     \A m, n \in RunNumbers : t[m].id = t[n].id => m = n}

(* ------------------------- run, getRequiredEnv ------------------------- *)

\* getRequiredEnv(key) in environment e: the value, or the Error thrown
getRequiredEnv(e, key) ==
  IF key \in DOMAIN e
    THEN [ok |-> TRUE, value |-> e[key]]
    ELSE [ok |-> FALSE, message |-> <<key, " was not defined.">>]

\* supportedEvent with one event too many in the list
supportedEventAlsoSchedule(event) ==
  event \in {"push", "pull_request", "schedule"}

\* ['push', 'pull_request'].includes(event)
supportedEvent(event) == event \in {"push", "pull_request"}

\* The body of run() up to the call of cancelDuplicates, in environment e:
\*   reads   the keys getRequiredEnv was called with,
\*   end     "throw" (an Error reached the catch block), "return" (one of
\*           the two early returns) or "call" (cancelDuplicates is called),
\*   message the message of the Error, branch the branch passed on.
runBody(e) ==
  LET k1 == "GITHUB_RUN_ID"
      k2 == "GITHUB_REPOSITORY"
      k3 == "GITHUB_EVENT_NAME"
      thrown(reads, msg) ==
        [reads |-> reads, end |-> "throw", message |-> msg, branch |-> <<>>]
      returned(reads) ==
        [reads |-> reads, end |-> "return", message |-> <<>>, branch |-> <<>>]
  IN
  IF ~getRequiredEnv(e, k1).ok THEN thrown({k1}, getRequiredEnv(e, k1).message)
  ELSE IF ~getRequiredEnv(e, k2).ok
    THEN thrown({k1, k2}, getRequiredEnv(e, k2).message)
  ELSE IF ~getRequiredEnv(e, k3).ok
    THEN thrown({k1, k2, k3}, getRequiredEnv(e, k3).message)
  ELSE IF ~supportedEvent(getRequiredEnv(e, k3).value)
    THEN returned({k1, k2, k3})
  ELSE
    LET pullRequest == "pull_request" = getRequiredEnv(e, k3).value
        k4 == IF pullRequest THEN "GITHUB_HEAD_REF" ELSE "GITHUB_REF"
        reads == {k1, k2, k3, k4}
        ref == getRequiredEnv(e, k4)
    IN  IF ~ref.ok THEN thrown(reads, ref.message)
        ELSE IF ~pullRequest /\ ~startsWith(ref.value, branchPrefix)
          THEN IF startsWith(ref.value, tagPrefix)
                 THEN returned(reads)
                 ELSE thrown(reads, <<ref.value,
                        " was not an expected branch ref (refs/heads/).">>)
        ELSE [reads |-> reads, end |-> "call", message |-> <<>>,
              branch |-> replaceFirst(ref.value, branchPrefix)]

\* run(): reads the environment; an Error goes to core.setFailed, which
\* sets the exit code; otherwise cancelDuplicates is called and runs up to
\* its first await, the getWorkflowRun request. It is not awaited: run()
\* returns with the request in flight.
run(p) ==
  LET r == runBody(env[p]) IN
  /\ pc[p] = "start"
  /\ envRead' = [envRead EXCEPT ![p] = r.reads]
  /\ branch' = [branch EXCEPT ![p] = r.branch]
  /\ IF r.end = "call"
       THEN /\ pc' = [pc EXCEPT ![p] = "lookup"]
            /\ calls' = [calls EXCEPT ![p] =
                 Append(@, [op |-> "getWorkflowRun",
                            run_id |-> parseInt(selfRunId(p))])]
            /\ promise' = [promise EXCEPT ![p] = "pending"]
            /\ UNCHANGED <<setFailed, exitCode>>
       ELSE /\ pc' = [pc EXCEPT ![p] = "exited"]
            /\ setFailed' = [setFailed EXCEPT ![p] =
                 IF r.end = "throw" THEN Append(@, r.message) ELSE @]
            /\ exitCode' = [exitCode EXCEPT ![p] =
                 IF r.end = "throw" THEN 1 ELSE 0]
            /\ UNCHANGED <<calls, promise>>
  /\ UNCHANGED <<runs, env, workflowId, statusIdx, pageNo, sorted, pending>>

(* --------------------------- cancelDuplicates -------------------------- *)

\* the request createRunsQuery builds for the listing of one status
createRunsQuery(workflow, status, br) ==
  [op |-> "listWorkflowRuns", workflow_id |-> workflow, status |-> status,
   branch |-> br]

\* what getWorkflowRun may answer: an error, or a run whose workflow_url
\* ends in the workflow's identifier or in nothing
LookupReplies ==
  {[ok |-> FALSE]}
  \cup {[ok |-> TRUE, workflow_url |-> u] :
          u \in {<<"repos", "o", "r", "actions", "workflows", "42">>,
                 <<"repos", "o", "r", "actions", "workflows", "">>}}

\* The await of getWorkflowRun ends. A rejection, or an empty workflowId,
\* throws out of cancelDuplicates; otherwise the outer loop starts and the
\* first page of the queued listing is requested.
getWorkflowRun(p, reply) ==
  LET id == IF reply.ok THEN lastSegment(reply.workflow_url) ELSE "" IN
  /\ pc[p] = "lookup"
  /\ IF reply.ok /\ id # ""
       THEN /\ pc' = [pc EXCEPT ![p] = "list"]
            /\ workflowId' = [workflowId EXCEPT ![p] = id]
            /\ statusIdx' = [statusIdx EXCEPT ![p] = 1]
            /\ calls' = [calls EXCEPT ![p] =
                 Append(@, createRunsQuery(id, StatusList[1], branch[p]))]
            /\ UNCHANGED promise
       ELSE /\ pc' = [pc EXCEPT ![p] = "rejected"]
            /\ promise' = [promise EXCEPT ![p] = "rejected"]
            /\ UNCHANGED <<workflowId, statusIdx, calls>>
  /\ UNCHANGED <<runs, env, envRead, branch, pageNo, sorted, pending,
                 setFailed, exitCode>>

\* the record the service returns for run n when its status is st
runRecord(n, st) ==
  [id |-> runs[n].id, run_number |-> n, status |-> st, event |-> runs[n].event]

\* A page as the iterator yields it. item.data is the array itself (it has
\* a length) or, on some pages, the REST object that holds the array under
\* workflow_runs (it has no length).
flatItem(es) == [data |-> [length |-> Len(es), array |-> es]]
nestedItem(es) == [data |-> [total_count |-> Len(es), workflow_runs |-> es]]

\* the elements of a page read as item.data only: nothing to iterate over
\* in the REST object
elementsOfFlatOnly(item) ==
  IF "length" \notin DOMAIN item.data
    THEN <<>>
    ELSE item.data.array

\* item.data.length === undefined ? item.data.workflow_runs : item.data
elementsOf(item) ==
  IF "length" \notin DOMAIN item.data
    THEN item.data.workflow_runs
    ELSE item.data.array

\* a map whose set keeps the value a key already has
treeSetKeepFirst(map, key, value) ==
  [k \in DOMAIN map \cup {key} |->
     IF k \in DOMAIN map THEN map[k] ELSE value]

\* TreeMap.set(key, value)
treeSet(map, key, value) ==
  [k \in DOMAIN map \cup {key} |-> IF k = key THEN value ELSE map[k]]

RECURSIVE setAll(_, _)
\* for (const element of elements) sorted.set(element.run_number, element)
setAll(map, elements) ==
  IF elements = <<>> THEN map
  ELSE setAll(treeSet(map, Head(elements).run_number, Head(elements)),
              Tail(elements))

RECURSIVE descending(_)
\* the members of a set of numbers, largest first
descending(S) ==
  IF S = {} THEN <<>>
  ELSE LET m == CHOOSE x \in S : \A y \in S : y <= x
       IN  <<m>> \o descending(S \ {m})

RECURSIVE ascending(_)
\* the members of a set of numbers, smallest first
ascending(S) ==
  IF S = {} THEN <<>>
  ELSE LET m == CHOOSE x \in S : \A y \in S : x <= y
       IN  <<m>> \o ascending(S \ {m})

\* backward() taken for forward(): the keys smallest first
backwardAsForward(map) == ascending(DOMAIN map)

\* TreeMap.backward(): the keys in the order the iterator delivers them
backward(map) == descending(DOMAIN map)

\* A page of the current listing arrives and its elements are merged. With
\* a next page (more) that page is requested; after the last page of a
\* status the listing of the next status starts; after the last status the
\* backward traversal starts.
listPage(p, item, more) ==
  LET merged == setAll(sorted[p], elementsOf(item)) IN
  /\ pc[p] = "list"
  /\ more => pageNo[p] + 1 < MaxPages
  /\ sorted' = [sorted EXCEPT ![p] = merged]
  /\ IF more
       THEN /\ pageNo' = [pageNo EXCEPT ![p] = @ + 1]
            /\ calls' = [calls EXCEPT ![p] = Append(@,
                 createRunsQuery(workflowId[p], StatusList[statusIdx[p]],
                                 branch[p]))]
            /\ UNCHANGED <<pc, statusIdx, pending>>
       ELSE IF statusIdx[p] < Len(StatusList)
         THEN /\ statusIdx' = [statusIdx EXCEPT ![p] = @ + 1]
              /\ pageNo' = [pageNo EXCEPT ![p] = 0]
              /\ calls' = [calls EXCEPT ![p] = Append(@,
                   createRunsQuery(workflowId[p], StatusList[statusIdx[p] + 1],
                                   branch[p]))]
              /\ UNCHANGED <<pc, pending>>
         ELSE /\ pc' = [pc EXCEPT ![p] = "cancel"]
              /\ pending' = [pending EXCEPT ![p] = backward(merged)]
              /\ UNCHANGED <<statusIdx, pageNo, calls>>
  /\ UNCHANGED <<runs, env, envRead, branch, workflowId, promise, setFailed,
                 exitCode>>

\* for await (const item of ...): the iterator hands page item of the
\* current listing to invocation p
deliver(p, item) ==
  delivered' = [delivered EXCEPT ![p] =
                  Append(@, [status |-> StatusList[statusIdx[p]], item |-> item])]

\* The request for a page fails: the iterator throws out of cancelDuplicates.
listPageError(p) ==
  /\ pc[p] = "list"
  /\ pc' = [pc EXCEPT ![p] = "rejected"]
  /\ promise' = [promise EXCEPT ![p] = "rejected"]
  /\ UNCHANGED <<runs, env, envRead, branch, workflowId, statusIdx, pageNo,
                 sorted, pending, calls, setFailed, exitCode>>

\* the comparison as runId > selfRunId
skipLargerStrict(id, self) == strLess(self, toString(id))

\* the comparison as runId === selfRunId
skipLargerOnlySelf(id, self) == toString(id) = self

\* runId >= selfRunId, both strings: runId is element.id.toString() and
\* selfRunId the value of GITHUB_RUN_ID
skipLarger(id, self) == strGreaterEq(toString(id), self)

\* skipCompleted with the status misspelt
skipCompletedMisspelt(status) == "complete" = status

\* 'completed' === element.status.toString()
skipCompleted(status) == "completed" = status

\* skipEvent that lets every event but an unknown one through
skipEventNever(event) == event \notin Events

\* !['push', 'pull_request'].includes(event)
skipEvent(event) == ~supportedEvent(event)

\* the three tests of the loop body, in its order
skips(el, self) ==
  \/ skipLarger(el.id, self)
  \/ skipCompleted(el.status)
  \/ skipEvent(el.event)

\* cancelRun without its try/catch: a failed request throws out of
\* cancelDuplicates
cancelRunNoCatch(p, el, ok) ==
  /\ calls' = [calls EXCEPT ![p] =
       Append(@, [op |-> "cancelWorkflowRun", run_id |-> el.id,
                  element |-> el, ok |-> ok])]
  /\ pc' = [pc EXCEPT ![p] = IF ok THEN @ ELSE "rejected"]
  /\ promise' = [promise EXCEPT ![p] = IF ok THEN @ ELSE "rejected"]

\* cancelRun that sends a failed request a second time
cancelRunRetry(p, el, ok) ==
  /\ calls' = [calls EXCEPT ![p] =
       IF ok
         THEN Append(@, [op |-> "cancelWorkflowRun", run_id |-> el.id,
                         element |-> el, ok |-> ok])
         ELSE Append(Append(@, [op |-> "cancelWorkflowRun", run_id |-> el.id,
                                element |-> el, ok |-> ok]),
                     [op |-> "cancelWorkflowRun", run_id |-> el.id,
                      element |-> el, ok |-> ok])]
  /\ UNCHANGED <<pc, promise>>

\* cancelRun: the cancel request is sent and answered (ok) or fails; the
\* catch block only logs, so either way the caller continues. The request
\* carries el.id; the rest of el is recorded for the properties.
cancelRun(p, el, ok) ==
  /\ calls' = [calls EXCEPT ![p] =
       Append(@, [op |-> "cancelWorkflowRun", run_id |-> el.id,
                  element |-> el, ok |-> ok])]
  /\ UNCHANGED <<pc, promise>>

\* one turn of the loop over sorted.backward() that ends in a continue
skipEntry(p) ==
  /\ pc[p] = "cancel"
  /\ pending[p] # <<>>
  /\ skips(sorted[p][Head(pending[p])], selfRunId(p))
  /\ pending' = [pending EXCEPT ![p] = Tail(@)]
  /\ UNCHANGED <<runs, env, pc, envRead, branch, workflowId, statusIdx,
                 pageNo, sorted, calls, promise, setFailed, exitCode>>

\* one turn of the loop that reaches cancelRun
cancelEntry(p, ok) ==
  /\ pc[p] = "cancel"
  /\ pending[p] # <<>>
  /\ ~skips(sorted[p][Head(pending[p])], selfRunId(p))
  /\ pending' = [pending EXCEPT ![p] = Tail(@)]
  /\ cancelRun(p, sorted[p][Head(pending[p])], ok)
  /\ UNCHANGED <<runs, env, envRead, branch, workflowId, statusIdx, pageNo,
                 sorted, setFailed, exitCode>>

\* the loop is over: cancelDuplicates resolves and the process ends with
\* the exit code core.setFailed left, 0 when it was never called
resolve(p) ==
  /\ pc[p] = "cancel"
  /\ pending[p] = <<>>
  /\ pc' = [pc EXCEPT ![p] = "exited"]
  /\ promise' = [promise EXCEPT ![p] = "resolved"]
  /\ exitCode' = [exitCode EXCEPT ![p] = IF setFailed[p] # <<>> THEN 1 ELSE 0]
  /\ UNCHANGED <<runs, env, envRead, branch, workflowId, statusIdx, pageNo,
                 sorted, pending, calls, setFailed>>

\* cancelDuplicates rejected. run() did not await it, so its catch block is
\* gone: the rejection is unhandled and core.setFailed is not called. What
\* the process then does is the runtime's choice: a warning and exit code 0
\* (node12, the runtime of the action) or a crash with exit code 1.
unhandledRejection(p, code) ==
  /\ pc[p] = "rejected"
  /\ pc' = [pc EXCEPT ![p] = "exited"]
  /\ exitCode' = [exitCode EXCEPT ![p] = code]
  /\ UNCHANGED <<runs, env, envRead, branch, workflowId, statusIdx, pageNo,
                 sorted, pending, calls, promise, setFailed>>

(* ---------------------- one invocation, any replies --------------------- *)

\* sequences over S of length at most k
SeqsUpTo(S, k) == UNION {[1..n -> S] : n \in 0..k}

\* the pages the listing may deliver: any records of the workflow's runs,
\* in any order and with any status, in either shape
Items ==
  LET contents == SeqsUpTo({runRecord(n, st) : n \in RunNumbers, st \in Statuses},
                           MaxPageLen)
  IN  {flatItem(es) : es \in contents} \cup {nestedItem(es) : es \in contents}

start(P) ==
  /\ pc = [p \in P |-> "start"]
  /\ envRead = [p \in P |-> {}]
  /\ branch = [p \in P |-> <<>>]
  /\ workflowId = [p \in P |-> ""]
  /\ statusIdx = [p \in P |-> 0]
  /\ pageNo = [p \in P |-> 0]
  /\ sorted = [p \in P |-> <<>>]
  /\ pending = [p \in P |-> <<>>]
  /\ calls = [p \in P |-> <<>>]
  /\ promise = [p \in P |-> "none"]
  /\ setFailed = [p \in P |-> <<>>]
  /\ exitCode = [p \in P |-> -1]
  /\ delivered = [p \in P |-> <<>>]

\* One invocation, and no assumption about the service: every reply is
\* possible at every time, so the status the service holds plays no part.
Init ==
  /\ runs \in RunTables
  /\ service = [n \in RunNumbers |-> "queued"]
  /\ env \in [{1} -> Envs]
  /\ start({1})

Next ==
  /\ UNCHANGED <<service, delivered>>
  /\ \E p \in Procs :
       \/ run(p)
       \/ \E reply \in LookupReplies : getWorkflowRun(p, reply)
       \/ \E item \in Items, more \in BOOLEAN : listPage(p, item, more)
       \/ listPageError(p)
       \/ skipEntry(p)
       \/ \E ok \in BOOLEAN : cancelEntry(p, ok)
       \/ resolve(p)
       \/ \E code \in {0, 1} : unhandledRejection(p, code)

Spec == Init /\ [][Next]_vars

(* ------------- the collection of one invocation, page by page ----------- *)

\* One push run, with identifier MaxRunId, of a workflow whose runs were all
\* started by pushes.
InitPages ==
  /\ runs \in {t \in RunTables : \A n \in RunNumbers : t[n].event = "push"}
  /\ service = [n \in RunNumbers |-> "queued"]
  /\ env = [p \in {1} |-> envOf({toString(MaxRunId)}, {<<"o", "r">>}, {"push"},
                                {<<"refs", "heads", "main">>}, {})]
  /\ start({1})

\* run() and cancelDuplicates up to the end of the collection: the pages
\* are those of Next, and each page delivered is kept.
NextPages ==
  /\ UNCHANGED service
  /\ \E p \in Procs :
       \/ run(p) /\ UNCHANGED delivered
       \/ \E reply \in LookupReplies :
            getWorkflowRun(p, reply) /\ UNCHANGED delivered
       \/ /\ pc[p] = "list"
          /\ \E item \in Items, more \in BOOLEAN :
               listPage(p, item, more) /\ deliver(p, item)
       \/ listPageError(p) /\ UNCHANGED delivered

SpecPages == InitPages /\ [][NextPages]_vars

(* ------------- every run executes the action, one service --------------- *)

\* the environment the runner gives the action in a run started by event ev
\* with identifier id
envFor(id, ev) ==
  IF ev = "pull_request"
    THEN envOf({toString(id)}, {<<"o", "r">>}, {ev},
               {<<"refs", "pull", "1", "merge">>}, {<<"feature">>})
    ELSE envOf({toString(id)}, {<<"o", "r">>}, {ev},
               {<<"refs", "heads", "main">>}, {})

\* the run of the table with identifier id
runOf(id) == CHOOSE n \in RunNumbers : runs[n].id = id

\* a queued run starts executing
begin(n) ==
  /\ service[n] = "queued"
  /\ service' = [service EXCEPT ![n] = "in_progress"]
  /\ UNCHANGED <<runs, local, delivered>>

\* a run whose action has ended completes
complete(n) ==
  /\ service[n] = "in_progress"
  /\ pc[n] = "exited"
  /\ service' = [service EXCEPT ![n] = "completed"]
  /\ UNCHANGED <<runs, local, delivered>>

\* The service answers a cancel request for run id: a run that is not
\* completed is cancelled, which completes it; any request may fail.
cancelWorkflowRun(id, ok) ==
  /\ ok => service[runOf(id)] # "completed"
  /\ service' = IF ok THEN [service EXCEPT ![runOf(id)] = "completed"]
                      ELSE service

\* The listing of one status, answered from the statuses the service holds
\* at that moment, newest run first, in either shape.
snapshots(status) ==
  LET es == [i \in 1..Len(descending({n \in RunNumbers : service[n] = status}))
               |-> runRecord(descending({n \in RunNumbers : service[n] = status})[i],
                             status)]
  IN  {flatItem(es), nestedItem(es)}

InitConc ==
  /\ runs \in RunTables
  /\ service = [n \in RunNumbers |-> "queued"]
  /\ env = [n \in RunNumbers |-> envFor(runs[n].id, runs[n].event)]
  /\ start(RunNumbers)

NextConc ==
  \/ \E n \in RunNumbers : begin(n)
  \/ \E n \in RunNumbers : complete(n)
  \/ \E p \in Procs :
       \/ /\ service[p] = "in_progress" /\ run(p)
          /\ UNCHANGED <<service, delivered>>
       \/ \E reply \in LookupReplies :
            getWorkflowRun(p, reply) /\ UNCHANGED <<service, delivered>>
       \/ /\ pc[p] = "list"
          /\ \E item \in snapshots(StatusList[statusIdx[p]]) :
               listPage(p, item, FALSE) /\ deliver(p, item)
          /\ UNCHANGED service
       \/ listPageError(p) /\ UNCHANGED <<service, delivered>>
       \/ skipEntry(p) /\ UNCHANGED <<service, delivered>>
       \/ \E ok \in BOOLEAN :
            /\ cancelEntry(p, ok)
            /\ cancelWorkflowRun(sorted[p][Head(pending[p])].id, ok)
            /\ UNCHANGED delivered
       \/ resolve(p) /\ UNCHANGED <<service, delivered>>
       \/ \E code \in {0, 1} :
            unhandledRejection(p, code) /\ UNCHANGED <<service, delivered>>

SpecConc == InitConc /\ [][NextConc]_vars

(* ------------------------------ properties ----------------------------- *)

\* the positions of the cancel requests among the calls of p
cancelCalls(p) ==
  {i \in DOMAIN calls[p] : calls[p][i].op = "cancelWorkflowRun"}

\* the positions of the listing requests among the calls of p
listCalls(p) ==
  {i \in DOMAIN calls[p] : calls[p][i].op = "listWorkflowRuns"}

\* the record el of the Collected Set passes the three exclusion rules as
\* the specification words them: the identifiers compared as numbers
eligible(el, self) ==
  /\ el.id < parseInt(self)
  /\ el.status # "completed"
  /\ el.event \in {"push", "pull_request"}

\* p sent a cancel request for the record el
cancelled(p, el) == \E i \in cancelCalls(p) : calls[p][i].element = el

\* C1: cancelDuplicates never issues a cancel call for a run whose runId is
\* numerically greater than or equal to the current run's runId, whatever
\* the number of decimal digits of the two identifiers.
C1_NeverCancelsNotOlder ==
  \A p \in Procs : \A i \in cancelCalls(p) :
    calls[p][i].run_id < parseInt(selfRunId(p))

\* C2: when several runs of the same workflow and branch each execute the
\* action, in any interleaving, the run with the numerically largest run
\* identifier never receives a cancel request from another invocation.
C2_NewestNeverCancelled ==
  \A p \in Procs : \A i \in cancelCalls(p) :
    LET target == runOf(calls[p][i].run_id) IN
    ~ /\ \A n \in RunNumbers : runs[n].id <= runs[target].id
      /\ target # p
      /\ pc[target] # "start"

\* the workflow of the current run of p could not be resolved
unresolved(p) ==
  /\ promise[p] = "rejected"
  /\ workflowId[p] = ""

\* C3: when the workflow of the current run cannot be resolved, run()
\* reports the failure through core.setFailed, and no listing or cancel
\* call is made.
C3_UnresolvedWorkflowSetsFailed ==
  \A p \in Procs :
    unresolved(p) =>
      /\ listCalls(p) = {} /\ cancelCalls(p) = {}
      /\ pc[p] = "exited" => setFailed[p] # <<>>

\* C4: whichever cancel calls fail, every cancellation target still gets
\* its cancel call, no cancel failure throws out of cancelRun or
\* cancelDuplicates, and the operation ends without being marked failed.
C4_CancelFailuresIsolated ==
  \A p \in Procs :
    (\E i \in cancelCalls(p) : ~calls[p][i].ok) =>
      /\ promise[p] # "rejected"
      /\ setFailed[p] = <<>>
      /\ exitCode[p] \in {-1, 0}
      /\ \A k \in DOMAIN sorted[p] :
           ~skips(sorted[p][k], selfRunId(p)) =>
             \/ cancelled(p, sorted[p][k])
             \/ pc[p] = "cancel" /\ \E j \in DOMAIN pending[p] : pending[p][j] = k

\* the first of two targets failed, the second succeeded, and the operation
\* ended with success
C4_Witness ==
  \E p \in Procs :
    /\ promise[p] = "resolved" /\ exitCode[p] = 0 /\ setFailed[p] = <<>>
    /\ \E i, j \in cancelCalls(p) :
         i < j /\ ~calls[p][i].ok /\ calls[p][j].ok

\* C5: every record of the Collected Set that passes the three exclusion
\* rules (runId numerically smaller than the current run's, status not
\* completed, event push or pull_request) receives a cancel call.
C5_EveryEligibleRecordCancelled ==
  \A p \in Procs :
    promise[p] = "resolved" =>
      \A k \in DOMAIN sorted[p] :
        eligible(sorted[p][k], selfRunId(p)) => cancelled(p, sorted[p][k])

\* C6: cancelDuplicates never issues a cancel call for a run whose trigger
\* event is outside {push, pull_request}.
C6_NeverCancelsOtherEvents ==
  \A p \in Procs : \A i \in cancelCalls(p) : \A n \in RunNumbers :
    runs[n].id = calls[p][i].run_id => runs[n].event \in {"push", "pull_request"}

\* a scheduled run that is older and not completed was collected, the
\* traversal is over and the run got no cancel call
C6_Witness ==
  \E p \in Procs :
    /\ promise[p] = "resolved"
    /\ \E k \in DOMAIN sorted[p] :
         /\ sorted[p][k].event = "schedule"
         /\ sorted[p][k].status # "completed"
         /\ sorted[p][k].id = 10 /\ selfRunId(p) = <<1, 2>>
         /\ \A i \in cancelCalls(p) : calls[p][i].run_id # sorted[p][k].id

\* C7: cancelDuplicates never issues a cancel call for a record whose
\* status is completed.
C7_NeverCancelsCompleted ==
  \A p \in Procs : \A i \in cancelCalls(p) :
    calls[p][i].element.status # "completed"

\* a completed push run that is older was collected, the traversal is over
\* and the run got no cancel call
C7_Witness ==
  \E p \in Procs :
    /\ promise[p] = "resolved"
    /\ \E k \in DOMAIN sorted[p] :
         /\ sorted[p][k].status = "completed"
         /\ sorted[p][k].event = "push"
         /\ sorted[p][k].id = 10 /\ selfRunId(p) = <<1, 2>>
         /\ \A i \in cancelCalls(p) : calls[p][i].run_id # sorted[p][k].id

\* C8: the cancel calls of one invocation are issued in strictly descending
\* runNumber order.
C8_CancelsDescending ==
  \A p \in Procs : \A i, j \in cancelCalls(p) :
    i < j => calls[p][i].element.run_number > calls[p][j].element.run_number

\* two cancel calls were issued, for runs whose identifiers ascend the
\* other way
C8_Witness ==
  \E p \in Procs :
    /\ promise[p] = "resolved"
    /\ \E i, j \in cancelCalls(p) :
         i < j /\ calls[p][i].run_id < calls[p][j].run_id

\* a page of one of the two listings of p failed
listingFailed(p) ==
  /\ promise[p] = "rejected"
  /\ workflowId[p] # ""

\* C9: a failure of any page of either listing is fatal: no cancel call is
\* issued, and the failure is the overall failure of the process.
C9_ListingFailureFatal ==
  \A p \in Procs :
    listingFailed(p) =>
      /\ cancelCalls(p) = {}
      /\ pc[p] = "exited" => (setFailed[p] # <<>> \/ exitCode[p] # 0)

\* run() of p is over and the event name it read is not a supported one
unsupportedEvent(p) ==
  /\ pc[p] # "start"
  /\ "GITHUB_EVENT_NAME" \in DOMAIN env[p]
  /\ eventName(p) \notin {"push", "pull_request"}

\* nothing was requested, no ref was read and no failure was reported
skipped(p) ==
  /\ calls[p] = <<>>
  /\ envRead[p] \cap {"GITHUB_REF", "GITHUB_HEAD_REF"} = {}
  /\ setFailed[p] = <<>>
  /\ pc[p] = "exited" /\ exitCode[p] = 0

\* C10 as claimed: when the event name is anything other than push or
\* pull_request, run() makes no lookup, listing or cancel call, does not
\* read the ref and does not report a failure.
C10_UnsupportedEventSkipped ==
  \A p \in Procs : unsupportedEvent(p) => skipped(p)

\* C10 as amended: the same, when GITHUB_RUN_ID and GITHUB_REPOSITORY, which
\* run() reads before the event name, are set.
C10_UnsupportedEventSkippedWhenIdentified ==
  \A p \in Procs :
    /\ unsupportedEvent(p)
    /\ {"GITHUB_RUN_ID", "GITHUB_REPOSITORY"} \subseteq DOMAIN env[p]
    => skipped(p)

\* a scheduled run with its identifier and repository set has run the
\* action, which did nothing
C10_Witness ==
  \E p \in Procs :
    /\ unsupportedEvent(p) /\ eventName(p) = "schedule"
    /\ {"GITHUB_RUN_ID", "GITHUB_REPOSITORY"} \subseteq DOMAIN env[p]
    /\ skipped(p)

\* the ref run() selects for the event of p is set, and which it is
selectedRef(p) ==
  IF eventName(p) = "pull_request" THEN "GITHUB_HEAD_REF" ELSE "GITHUB_REF"

\* the string ref begins with a/b/
beginsWith(ref, a, b) == Len(ref) > 2 /\ ref[1] = a /\ ref[2] = b

\* run() of p is over, for a push or pull_request event whose ref begins
\* with refs/tags/
tagRef(p) ==
  /\ pc[p] # "start"
  /\ "GITHUB_EVENT_NAME" \in DOMAIN env[p]
  /\ eventName(p) \in {"push", "pull_request"}
  /\ selectedRef(p) \in DOMAIN env[p]
  /\ beginsWith(env[p][selectedRef(p)], "refs", "tags")

\* the invocation ended with nothing requested and no failure reported
nothingDone(p) ==
  /\ calls[p] = <<>>
  /\ setFailed[p] = <<>>
  /\ pc[p] = "exited" /\ exitCode[p] = 0

\* the two values run() reads before the event name are set
identified(p) ==
  {"GITHUB_RUN_ID", "GITHUB_REPOSITORY"} \subseteq DOMAIN env[p]

fatalInput(p) ==
  \/ "GITHUB_RUN_ID" \notin DOMAIN env[p]
  \/ "GITHUB_REPOSITORY" \notin DOMAIN env[p]
  \/ "GITHUB_EVENT_NAME" \notin DOMAIN env[p]
  \/ /\ eventName(p) \in {"push", "pull_request"}
     /\ selectedRef(p) \notin DOMAIN env[p]
  \/ /\ eventName(p) = "push"
     /\ "GITHUB_REF" \in DOMAIN env[p]
     /\ ~beginsWith(env[p]["GITHUB_REF"], "refs", "heads")
     /\ ~beginsWith(env[p]["GITHUB_REF"], "refs", "tags")

\* C12: a missing required environment value, or a push ref that begins
\* with neither the branch prefix nor the tag prefix, aborts the operation
\* before any lookup, listing or cancel call and is reported as the overall
\* failure of the process.
C12_FatalInputReported ==
  \A p \in Procs :
    fatalInput(p) /\ pc[p] # "start" =>
      /\ calls[p] = <<>>
      /\ pc[p] = "exited"
      /\ setFailed[p] # <<>> /\ exitCode[p] = 1

\* a push whose ref is the merge ref of a pull request, all other values
\* set, has ended as a failure without a single request
C12_Witness ==
  \E p \in Procs :
    /\ {"GITHUB_RUN_ID", "GITHUB_REPOSITORY", "GITHUB_REF"} \subseteq DOMAIN env[p]
    /\ "GITHUB_EVENT_NAME" \in DOMAIN env[p] /\ eventName(p) = "push"
    /\ env[p]["GITHUB_REF"] = <<"refs", "pull", "1", "merge">>
    /\ pc[p] = "exited" /\ calls[p] = <<>>
    /\ Len(setFailed[p]) = 1 /\ exitCode[p] = 1

\* the phase a request belongs to: lookup, queued listing, in_progress
\* listing, cancellation
phase(call) ==
  CASE call.op = "getWorkflowRun" -> 1
    [] call.op = "listWorkflowRuns" /\ call.status = "queued" -> 2
    [] call.op = "listWorkflowRuns" /\ call.status # "queued" -> 3
    [] call.op = "cancelWorkflowRun" -> 4

\* C14: the phases of one invocation run strictly in sequence: no listing
\* query before the workflow lookup has returned, every page of the queued
\* listing before the first page of the in_progress listing, and no cancel
\* call before both listings are exhausted.
C14_PhasesInSequence ==
  \A p \in Procs :
    /\ \A i, j \in DOMAIN calls[p] :
         i < j => /\ phase(calls[p][i]) <= phase(calls[p][j])
                  /\ phase(calls[p][j]) # 1
    /\ pc[p] = "lookup" => Len(calls[p]) = 1 /\ phase(calls[p][1]) = 1
    /\ pc[p] = "list" =>
         /\ cancelCalls(p) = {}
         /\ phase(calls[p][Len(calls[p])]) \in {2, 3}
    /\ cancelCalls(p) # {} =>
         /\ \E i \in listCalls(p) : calls[p][i].status = "queued"
         /\ \E i \in listCalls(p) : calls[p][i].status = "in_progress"

\* an invocation went through all four phases, with two pages in each
\* listing
C14_Witness ==
  \E p \in Procs :
    /\ promise[p] = "resolved"
    /\ Len(calls[p]) = 6
    /\ phase(calls[p][2]) = 2 /\ phase(calls[p][3]) = 2
    /\ phase(calls[p][4]) = 3 /\ phase(calls[p][5]) = 3
    /\ phase(calls[p][6]) = 4

\* C17: every run an invocation cancels was started by the same trigger
\* event as the invoking run.
C17_CancelsSameEventOnly ==
  \A p \in Procs : \A i \in cancelCalls(p) :
    runs[runOf(calls[p][i].run_id)].event = eventName(p)

\* C18: an invocation never issues a cancel call for its own run: a record
\* whose runId equals the current run's identifier is skipped.
C18_NeverCancelsItself ==
  \A p \in Procs : \A i \in cancelCalls(p) :
    calls[p][i].run_id # parseInt(selfRunId(p))

\* the record of the invoking run itself, not completed and of a supported
\* event, was collected, the traversal is over, and the run got no cancel
\* call
C18_Witness ==
  \E p \in Procs :
    /\ promise[p] = "resolved"
    /\ \E k \in DOMAIN sorted[p] :
         /\ sorted[p][k].id = parseInt(selfRunId(p))
         /\ sorted[p][k].status # "completed"
         /\ sorted[p][k].event \in {"push", "pull_request"}
    /\ C18_NeverCancelsItself

\* the records of a page, whatever its shape
pageRecords(item) ==
  IF "workflow_runs" \in DOMAIN item.data
    THEN item.data.workflow_runs
    ELSE item.data.array

RECURSIVE recordsOf(_)
\* the records of a sequence of delivered pages, in the order of delivery
recordsOf(pages) ==
  IF pages = <<>> THEN <<>>
  ELSE pageRecords(Head(pages).item) \o recordsOf(Tail(pages))

\* the pages delivered to p by the listing of status
pagesOf(p, status) ==
  {i \in DOMAIN delivered[p] : delivered[p][i].status = status}

\* page i delivered to p holds a record of run number n
onPage(p, i, n) ==
  \E k \in DOMAIN pageRecords(delivered[p][i].item) :
    pageRecords(delivered[p][i].item)[k].run_number = n

\* C13: no retries: within one invocation each run identifier is the
\* target of at most one cancel call, whether that call succeeds or fails
\* and even if the run was returned by both status listings.
C13_AtMostOneCancelPerRun ==
  \A p \in Procs : \A i, j \in cancelCalls(p) :
    calls[p][i].run_id = calls[p][j].run_id => i = j

\* a run was on the page of the queued listing and on the page of the
\* in_progress listing, its one cancel request failed, and the invocation
\* is over
C13_Witness ==
  \E p \in Procs, n \in RunNumbers :
    /\ promise[p] = "resolved"
    /\ \E i \in pagesOf(p, "queued") : onPage(p, i, n)
    /\ \E i \in pagesOf(p, "in_progress") : onPage(p, i, n)
    /\ \E i \in cancelCalls(p) :
         /\ calls[p][i].run_id = runs[n].id
         /\ ~calls[p][i].ok
    /\ C13_AtMostOneCancelPerRun

\* C15: the Collected Set holds exactly one entry per distinct runNumber
\* that appeared on any page of either listing; the entry is the record
\* merged last (a record of the in_progress listing overwrites the one of
\* the queued listing); its size never exceeds the number of distinct run
\* numbers seen.
C15_OneEntryPerRunNumberLastWins ==
  \A p \in Procs :
    LET rs == recordsOf(delivered[p])
        seen == {rs[i].run_number : i \in DOMAIN rs}
    IN  /\ DOMAIN sorted[p] = seen
        /\ \A n \in seen :
             \E i \in DOMAIN rs :
               /\ rs[i].run_number = n
               /\ \A j \in DOMAIN rs : rs[j].run_number = n => j <= i
               /\ sorted[p][n] = rs[i]
        /\ Cardinality(DOMAIN sorted[p]) <= Cardinality(seen)

\* the collection is over; a run was delivered as queued by the queued
\* listing and as in_progress by the in_progress listing, and the entry of
\* its run number is the in_progress record
C15_Witness ==
  \E p \in Procs, n \in RunNumbers :
    /\ pc[p] = "cancel"
    /\ \E i \in pagesOf(p, "queued") :
         pageRecords(delivered[p][i].item) = <<runRecord(n, "queued")>>
    /\ \E i \in pagesOf(p, "in_progress") :
         pageRecords(delivered[p][i].item) = <<runRecord(n, "in_progress")>>
    /\ sorted[p][n] = runRecord(n, "in_progress")
    /\ Cardinality(DOMAIN sorted[p]) = 2

RECURSIVE collectFlat(_, _)
\* what the collection makes of the same pages, each delivered in the flat
\* shape
collectFlat(map, pages) ==
  IF pages = <<>> THEN map
  ELSE collectFlat(setAll(map, elementsOf(flatItem(pageRecords(Head(pages).item)))),
                   Tail(pages))

\* C16: a page delivered in the variant shape (the collection nested under
\* workflow_runs) contributes exactly the same records to the Collected Set
\* as the same page delivered in the flat shape, an empty page included,
\* for any mix of the two shapes across the pages of a listing.
C16_ShapeMakesNoDifference ==
  \A p \in Procs : sorted[p] = collectFlat(<<>>, delivered[p])

\* the collection went through a listing of a flat page followed by a
\* nested one, and a listing of an empty nested page; the record of the
\* nested page is in the Collected Set
C16_Witness ==
  \E p \in Procs, n \in RunNumbers :
    /\ pc[p] = "cancel"
    /\ Len(delivered[p]) = 3
    /\ "length" \in DOMAIN delivered[p][1].item.data
    /\ delivered[p][2].status = delivered[p][1].status
    /\ "workflow_runs" \in DOMAIN delivered[p][2].item.data
    /\ delivered[p][2].item.data.workflow_runs = <<runRecord(n, "queued")>>
    /\ ~onPage(p, 1, n)
    /\ delivered[p][3].item = nestedItem(<<>>)
    /\ sorted[p][n] = runRecord(n, "queued")

\* C19: with each listing an atomic snapshot and statuses only moving
\* forward, every run that is not terminal from the start of the queued
\* listing to the end of the in_progress listing is in the Collected Set
\* when the collection ends: a run that goes from queued to in_progress
\* between the two listings is not missed.
C19_NonTerminalRunsCollected ==
  [][\A p \in Procs :
       pc[p] = "list" /\ pc'[p] = "cancel" =>
         \A n \in RunNumbers :
           service'[n] # "completed" => n \in DOMAIN sorted'[p]]_vars

\* another run was queued at the queued listing of p and in progress at its
\* in_progress listing, and is in the Collected Set at the end of the
\* collection
C19_Witness ==
  \E p \in Procs, n \in RunNumbers :
    /\ n # p
    /\ pc[p] = "cancel"
    /\ Len(delivered[p]) = 2
    /\ delivered[p][1].status = "queued" /\ onPage(p, 1, n)
    /\ delivered[p][2].status = "in_progress" /\ onPage(p, 2, n)
    /\ service[n] = "in_progress"
    /\ n \in DOMAIN sorted[p]

\* the invocation in run p sent a cancel request for run q
cancelsRun(p, q) ==
  \E i \in cancelCalls(p) : calls[p][i].run_id = runs[q].id

\* C20: of two runs that both execute the action, in any interleaving, at
\* most one invocation issues a cancel call for the other's run.
C20_NeverCancelEachOther ==
  \A p, q \in Procs : p # q => ~(cancelsRun(p, q) /\ cancelsRun(q, p))

\* the invocation in run q collected the record of run p, in progress and
\* of a supported event, and ended without a cancel call for it, and the
\* invocation in run p sent a cancel request for run q
C20_Witness ==
  \E p, q \in Procs :
    /\ p # q
    /\ cancelsRun(p, q)
    /\ promise[q] = "resolved"
    /\ p \in DOMAIN sorted[q]
    /\ sorted[q][p].status = "in_progress"
    /\ sorted[q][p].event \in {"push", "pull_request"}
    /\ ~cancelsRun(q, p)

====
